---- MODULE Spec2Model ----
(***************************************************************************)
(* The naffles_staking program (contracts/solana/lib.rs) as a state        *)
(* machine.  Every instruction is one atomic transaction: an instruction   *)
(* that returns an error (or traps) leaves every account as it was.        *)
(* Accounts are partial functions from their PDA seeds to their records;   *)
(* an `init` account must not be in the domain yet, an `Account<T>` must.  *)
(***************************************************************************)
EXTENDS Integers, Sequences, FiniteSets, TLC

\* ---------------------------------------------------------------- constants

SIX_MONTHS == 180 * 24 * 60 * 60
TWELVE_MONTHS == 365 * 24 * 60 * 60
THREE_YEARS == 1095 * 24 * 60 * 60
EMERGENCY_DELAY == 24 * 60 * 60

\* ------------------------------------------------------------- environment

\* The first clock reading of a run (the cluster clock is Unix time, > 0).
StartTime == 1000

\* The instants at which a run samples the monotonic clock.  Each
\* specification draws them around one deadline, for a stake or a request
\* made at StartTime: the emergency delay, the six-month lock, or none.
DelayInstants ==
    {StartTime, StartTime + EMERGENCY_DELAY - 1, StartTime + EMERGENCY_DELAY}
UnlockInstants ==
    {StartTime, StartTime + SIX_MONTHS - 1, StartTime + SIX_MONTHS}
TierInstants ==
    {StartTime, StartTime + 1}

\* Signers.  "auth" is the authority that ran initialize.
Pubkeys == {"auth", "alice"}
\* The identities the authority is asked to make administrators.
AdminKeys == {"auth"}
\* NFT mints (supply 1 each) and who holds each when the run starts.
NftMints == {"n1"}
InitialHolder == [m \in NftMints |-> "alice"]
\* Collection mints.
CollectionMints == {"cA", "cB"}
\* The staking_program PDA, owner of the custodial token accounts.
ProgramPda == "staking_program"
\* The duration tiers the callers choose from (u8; 0, 1, 2 are valid).
DurationArgs == {0, 3}
AllDurationArgs == {0, 1, 2, 3}
\* Other arguments the callers choose from.
ReasonArgs == {"", "incident"}
TicketArgs == {<<1, 2, 3>>}
UpdateTicketArgs == {<<4, 5, 6>>}
ValidatedArgs == {TRUE}
ThresholdArg == 2

\* ------------------------------------------------------------ u64 counters
\* A u64 is four 16-bit limbs, least significant first, so that the value
\* 2^64 - 1 a wrapped decrement produces is represented exactly.

LimbBase == 65536
U64Zero == <<0, 0, 0, 0>>
U64Max == <<LimbBase - 1, LimbBase - 1, LimbBase - 1, LimbBase - 1>>
U64(n) == <<n % LimbBase, n \div LimbBase, 0, 0>>

RECURSIVE U64IncFrom(_, _)
U64IncFrom(x, i) ==
    IF i > 4 THEN x
    ELSE IF x[i] = LimbBase - 1 THEN U64IncFrom([x EXCEPT ![i] = 0], i + 1)
    ELSE [x EXCEPT ![i] = x[i] + 1]

RECURSIVE U64DecFrom(_, _)
U64DecFrom(x, i) ==
    IF i > 4 THEN x
    ELSE IF x[i] = 0 THEN U64DecFrom([x EXCEPT ![i] = LimbBase - 1], i + 1)
    ELSE [x EXCEPT ![i] = x[i] - 1]

\* x + 1 and x - 1 in u64, as a build without overflow checks computes them.
WrappingAdd1(x) == U64IncFrom(x, 1)
\* A decrement that stays at zero instead of wrapping.
SaturatingSub1(x) == IF x = U64Zero THEN U64Zero ELSE U64DecFrom(x, 1)

WrappingSub1(x) == U64DecFrom(x, 1)

\* ------------------------------------------------------------------- state

VARIABLES
    staking_program,      \* the StakingProgram singleton
    admin_accounts,       \* seeds [b"admin", admin.key()]        -> AdminAccount
    collection_accounts,  \* seeds [b"collection", mint.key()]    -> CollectionAccount
    staking_positions,    \* seeds [b"staking_position", nft, user] -> StakingPosition
    emergency_requests,   \* seeds [b"emergency_request", position] -> EmergencyRequest
    token_holder,         \* the token program's ledger: who holds each NFT
    now,                  \* Clock::get()?.unix_timestamp
    overflow_checks,      \* the build profile: do += and -= trap on overflow?
    last                  \* the last instruction and what it returned

vars == <<staking_program, admin_accounts, collection_accounts, staking_positions,
          emergency_requests, token_holder, now, overflow_checks, last>>

accounts == <<staking_program, admin_accounts, collection_accounts,
              staking_positions, emergency_requests, token_holder>>


\* What an instruction leaves in `last`.
Call(op, result, signer) == [op |-> op, result |-> result, signer |-> signer]

Init ==
    /\ staking_program =
         [authority |-> "auth", multi_sig_threshold |-> ThresholdArg,
          total_staked |-> U64Zero, total_collections |-> U64Zero,
          is_paused |-> FALSE, paused_at |-> 0]
    /\ admin_accounts = << >>
    /\ collection_accounts = << >>
    /\ staking_positions = << >>
    /\ emergency_requests = << >>
    /\ token_holder = InitialHolder
    /\ now = StartTime
    /\ overflow_checks \in BOOLEAN
    /\ last = Call("initialize", "Ok", "auth")

\* The clock moves forward to a later instant.
Tick(instants) ==
    /\ \E t \in instants : t > now /\ now' = t
    /\ last' = Call("clock", "Ok", "-")
    /\ UNCHANGED <<accounts, overflow_checks>>

\* A checked += 1 / -= 1 traps (the transaction aborts) when it overflows.
Add1Traps(x) == overflow_checks /\ x = U64Max
Sub1Traps(x) == overflow_checks /\ x = U64Zero

\* ----------------------------------------------------------------- add_admin

add_admin_result(admin_key) ==
    IF admin_key \in DOMAIN admin_accounts THEN "AlreadyInUse"
    ELSE IF staking_program.is_paused THEN "ContractPaused"
    ELSE "Ok"

add_admin(authority, admin_key, admin) ==
    LET result == add_admin_result(admin_key) IN
    /\ last' = Call("add_admin", result, authority)
    /\ IF result = "Ok"
       THEN admin_accounts' = admin_accounts @@
                (admin_key :> [admin |-> admin, is_active |-> TRUE, added_at |-> now])
       ELSE UNCHANGED admin_accounts
    /\ UNCHANGED <<staking_program, collection_accounts, staking_positions,
                   emergency_requests, token_holder, now, overflow_checks>>

\* ------------------------------------------------------------ add_collection

add_collection_result(mint_key) ==
    IF mint_key \in DOMAIN collection_accounts THEN "AlreadyInUse"
    ELSE IF staking_program.is_paused THEN "ContractPaused"
    ELSE IF Add1Traps(staking_program.total_collections) THEN "Panic"
    ELSE "Ok"

NewCollection(collection_mint, tickets) ==
    [collection_mint |-> collection_mint,
     six_month_tickets |-> tickets[1],
     twelve_month_tickets |-> tickets[2],
     three_year_tickets |-> tickets[3],
     six_month_multiplier |-> 11000,
     twelve_month_multiplier |-> 12500,
     three_year_multiplier |-> 15000,
     is_active |-> TRUE,
     is_validated |-> FALSE,
     total_staked |-> U64Zero]

add_collection(authority, mint_key, collection_mint, tickets) ==
    LET result == add_collection_result(mint_key) IN
    /\ last' = Call("add_collection", result, authority)
    /\ IF result = "Ok"
       THEN /\ collection_accounts' = collection_accounts @@
                    (mint_key :> NewCollection(collection_mint, tickets))
            /\ staking_program' =
                 [staking_program EXCEPT
                    !.total_collections = WrappingAdd1(staking_program.total_collections)]
       ELSE UNCHANGED <<collection_accounts, staking_program>>
    /\ UNCHANGED <<admin_accounts, staking_positions, emergency_requests,
                   token_holder, now, overflow_checks>>

\* --------------------------------------------------- pause / unpause

pause_contract(admin, admin_account) ==
    /\ admin_account \in DOMAIN admin_accounts
    /\ staking_program' = [staking_program EXCEPT !.is_paused = TRUE, !.paused_at = now]
    /\ last' = Call("pause_contract", "Ok", admin)
    /\ UNCHANGED <<admin_accounts, collection_accounts, staking_positions,
                   emergency_requests, token_holder, now, overflow_checks>>

unpause_contract(admin, admin_account) ==
    /\ admin_account \in DOMAIN admin_accounts
    /\ staking_program' = [staking_program EXCEPT !.is_paused = FALSE, !.paused_at = 0]
    /\ last' = Call("unpause_contract", "Ok", admin)
    /\ UNCHANGED <<admin_accounts, collection_accounts, staking_positions,
                   emergency_requests, token_holder, now, overflow_checks>>

\* ----------------------------------- update_collection_rewards / validate

update_collection_rewards_result ==
    IF staking_program.is_paused THEN "ContractPaused" ELSE "Ok"

\* An update that also rewrites the six-month multiplier.
update_rewards_and_multiplier(authority, admin_account, collection, tickets) ==
    LET result == update_collection_rewards_result IN
    /\ admin_account \in DOMAIN admin_accounts
    /\ collection \in DOMAIN collection_accounts
    /\ last' = Call("update_collection_rewards", result, authority)
    /\ IF result = "Ok"
       THEN collection_accounts' =
              [collection_accounts EXCEPT
                 ![collection].six_month_tickets = tickets[1],
                 ![collection].twelve_month_tickets = tickets[2],
                 ![collection].three_year_tickets = tickets[3],
                 ![collection].six_month_multiplier = 10000 + tickets[1]]
       ELSE UNCHANGED collection_accounts
    /\ UNCHANGED <<staking_program, admin_accounts, staking_positions,
                   emergency_requests, token_holder, now, overflow_checks>>

update_collection_rewards(authority, admin_account, collection, tickets) ==
    LET result == update_collection_rewards_result IN
    /\ admin_account \in DOMAIN admin_accounts
    /\ collection \in DOMAIN collection_accounts
    /\ last' = Call("update_collection_rewards", result, authority)
    /\ IF result = "Ok"
       THEN collection_accounts' =
              [collection_accounts EXCEPT
                 ![collection].six_month_tickets = tickets[1],
                 ![collection].twelve_month_tickets = tickets[2],
                 ![collection].three_year_tickets = tickets[3]]
       ELSE UNCHANGED collection_accounts
    /\ UNCHANGED <<staking_program, admin_accounts, staking_positions,
                   emergency_requests, token_holder, now, overflow_checks>>

validate_collection_result ==
    IF staking_program.is_paused THEN "ContractPaused" ELSE "Ok"

validate_collection(authority, admin_account, collection, validated) ==
    LET result == validate_collection_result IN
    /\ admin_account \in DOMAIN admin_accounts
    /\ collection \in DOMAIN collection_accounts
    /\ last' = Call("validate_collection", result, authority)
    /\ IF result = "Ok"
       THEN collection_accounts' =
              [collection_accounts EXCEPT ![collection].is_validated = validated]
       ELSE UNCHANGED collection_accounts
    /\ UNCHANGED <<staking_program, admin_accounts, staking_positions,
                   emergency_requests, token_holder, now, overflow_checks>>

\* ----------------------------------------------------------------- stake_nft

\* The token program's transfer of one unit of `mint` out of an account that
\* `from` owns: it fails when that account holds nothing, or for a cause of
\* the token program's own (transfer_ok = FALSE).
\* A transfer whose outcome is not looked at.
TransferIgnored(mint, from, transfer_ok) == TRUE

TransferSucceeds(mint, from, transfer_ok) ==
    token_holder[mint] = from /\ transfer_ok

NoDuration == -1

\* A tier table with the last two arms exchanged.
StakingDurationSwapped(duration) ==
    CASE duration = 0 -> SIX_MONTHS
      [] duration = 1 -> THREE_YEARS
      [] duration = 2 -> TWELVE_MONTHS
      [] OTHER -> NoDuration

StakingDuration(duration) ==
    CASE duration = 0 -> SIX_MONTHS
      [] duration = 1 -> TWELVE_MONTHS
      [] duration = 2 -> THREE_YEARS
      [] OTHER -> NoDuration

\* The answer of a stake_nft whose staking_position account need not be new.
stake_nft_reusing(user, nft_mint, collection, duration, transfer_ok) ==
    IF staking_program.is_paused THEN "ContractPaused"
    ELSE IF ~(duration <= 2) THEN "InvalidDuration"
    ELSE IF ~collection_accounts[collection].is_active THEN "CollectionNotActive"
    ELSE IF ~(token_holder[nft_mint] = user /\ transfer_ok) THEN "TransferFailed"
    ELSE "Ok"

stake_nft_result(user, nft_mint, collection, duration, transfer_ok) ==
    IF <<nft_mint, user>> \in DOMAIN staking_positions THEN "AlreadyInUse"
    ELSE IF staking_program.is_paused THEN "ContractPaused"
    ELSE IF ~(duration <= 2) THEN "InvalidDuration"
    ELSE IF ~collection_accounts[collection].is_active THEN "CollectionNotActive"
    ELSE IF StakingDuration(duration) = NoDuration THEN "InvalidDuration"
    ELSE IF ~TransferSucceeds(nft_mint, user, transfer_ok) THEN "TransferFailed"
    ELSE IF Add1Traps(staking_program.total_staked) THEN "Panic"
    ELSE IF Add1Traps(collection_accounts[collection].total_staked) THEN "Panic"
    ELSE "Ok"

NewPosition(user, nft_mint, collection_mint, current_time, duration) ==
    [owner |-> user,
     nft_mint |-> nft_mint,
     collection_mint |-> collection_mint,
     staked_at |-> current_time,
     unlock_at |-> current_time + StakingDuration(duration),
     duration |-> duration,
     is_active |-> TRUE,
     total_rewards_earned |-> 0]

stake_nft(user, nft_mint, collection, duration, transfer_ok) ==
    LET result == stake_nft_result(user, nft_mint, collection, duration, transfer_ok) IN
    /\ collection \in DOMAIN collection_accounts
    /\ last' = Call("stake_nft", result, user)
    /\ IF result = "Ok"
       THEN /\ token_holder' = [token_holder EXCEPT ![nft_mint] = ProgramPda]
            /\ staking_positions' =
                 [p \in DOMAIN staking_positions \cup {<<nft_mint, user>>} |->
                    IF p = <<nft_mint, user>>
                    THEN NewPosition(user, nft_mint,
                                     collection_accounts[collection].collection_mint,
                                     now, duration)
                    ELSE staking_positions[p]]
            /\ staking_program' =
                 [staking_program EXCEPT
                    !.total_staked = WrappingAdd1(staking_program.total_staked)]
            /\ collection_accounts' =
                 [collection_accounts EXCEPT
                    ![collection].total_staked =
                        WrappingAdd1(collection_accounts[collection].total_staked)]
       ELSE UNCHANGED <<token_holder, staking_positions, staking_program,
                        collection_accounts>>
    /\ UNCHANGED <<admin_accounts, emergency_requests, now, overflow_checks>>

\* ----------------------------------------------------------------- claim_nft

UnlockReached(current_time, unlock_at) == current_time >= unlock_at

\* The answer of a claim_nft that does not look at the position's active flag.
claim_nft_unguarded(user, position, collection, transfer_ok) ==
    LET staking_position == staking_positions[position] IN
    IF staking_program.is_paused THEN "ContractPaused"
    ELSE IF ~(staking_position.owner = user) THEN "NotPositionOwner"
    ELSE IF ~UnlockReached(now, staking_position.unlock_at)
         THEN "StakingPeriodNotCompleted"
    ELSE IF ~TransferSucceeds(staking_position.nft_mint, ProgramPda, transfer_ok)
         THEN "TransferFailed"
    ELSE IF Sub1Traps(staking_program.total_staked) THEN "Panic"
    ELSE IF Sub1Traps(collection_accounts[collection].total_staked) THEN "Panic"
    ELSE "Ok"

\* The answer of a claim_nft that does not compare the signer with the owner.
claim_nft_by_anyone(user, position, collection, transfer_ok) ==
    LET staking_position == staking_positions[position] IN
    IF staking_program.is_paused THEN "ContractPaused"
    ELSE IF ~staking_position.is_active THEN "PositionNotActive"
    ELSE IF ~UnlockReached(now, staking_position.unlock_at)
         THEN "StakingPeriodNotCompleted"
    ELSE IF ~TransferSucceeds(staking_position.nft_mint, ProgramPda, transfer_ok)
         THEN "TransferFailed"
    ELSE IF Sub1Traps(staking_program.total_staked) THEN "Panic"
    ELSE IF Sub1Traps(collection_accounts[collection].total_staked) THEN "Panic"
    ELSE "Ok"

claim_nft_result(user, position, collection, transfer_ok) ==
    LET staking_position == staking_positions[position] IN
    IF staking_program.is_paused THEN "ContractPaused"
    ELSE IF ~staking_position.is_active THEN "PositionNotActive"
    ELSE IF ~(staking_position.owner = user) THEN "NotPositionOwner"
    ELSE IF ~UnlockReached(now, staking_position.unlock_at)
         THEN "StakingPeriodNotCompleted"
    ELSE IF ~TransferSucceeds(staking_position.nft_mint, ProgramPda, transfer_ok)
         THEN "TransferFailed"
    ELSE IF Sub1Traps(staking_program.total_staked) THEN "Panic"
    ELSE IF Sub1Traps(collection_accounts[collection].total_staked) THEN "Panic"
    ELSE "Ok"

\* `to` is the owner of the user_token_account the caller passes.
claim_nft(user, position, collection, to, transfer_ok) ==
    LET result == claim_nft_result(user, position, collection, transfer_ok) IN
    /\ position \in DOMAIN staking_positions
    /\ collection \in DOMAIN collection_accounts
    /\ last' = Call("claim_nft", result, user)
    /\ IF result = "Ok"
       THEN /\ staking_positions' =
                 [staking_positions EXCEPT ![position].is_active = FALSE]
            /\ token_holder' =
                 [token_holder EXCEPT ![staking_positions[position].nft_mint] = to]
            /\ staking_program' =
                 [staking_program EXCEPT
                    !.total_staked = WrappingSub1(staking_program.total_staked)]
            /\ collection_accounts' =
                 [collection_accounts EXCEPT
                    ![collection].total_staked =
                        WrappingSub1(collection_accounts[collection].total_staked)]
       ELSE UNCHANGED <<staking_positions, token_holder, staking_program,
                        collection_accounts>>
    /\ UNCHANGED <<admin_accounts, emergency_requests, now, overflow_checks>>

\* -------------------------------------------------------------- admin_unlock

\* The emergency_request account as the handler sees it: init_if_needed hands
\* over a zeroed account when none exists yet.
ZeroedEmergencyRequest ==
    [requester |-> "-", requested_at |-> 0, reason |-> "", executed |-> FALSE]

EmergencyRequestOf(position) ==
    IF position \in DOMAIN emergency_requests
    THEN emergency_requests[position]
    ELSE ZeroedEmergencyRequest

IsFirstRequest(emergency_request) == emergency_request.requested_at = 0

\* A delay test that also refuses the instant at which the delay ends.
EmergencyDelayStrict(current_time, requested_at) ==
    current_time > requested_at + EMERGENCY_DELAY

EmergencyDelayMet(current_time, requested_at) ==
    current_time >= requested_at + EMERGENCY_DELAY

\* A request record that is born executed.
RequestedAsExecuted(admin, current_time, reason) ==
    [requester |-> admin, requested_at |-> current_time, reason |-> reason,
     executed |-> TRUE]

RequestedEmergency(admin, current_time, reason) ==
    [requester |-> admin, requested_at |-> current_time, reason |-> reason,
     executed |-> FALSE]

\* The answer of an admin_unlock that looks at the reason only after the
\* position's active flag.
admin_unlock_reason_late(position, collection, reason, transfer_ok) ==
    LET staking_position == staking_positions[position]
        emergency_request == EmergencyRequestOf(position)
    IN
    IF ~staking_position.is_active THEN "PositionNotActive"
    ELSE IF reason = "" THEN "ReasonRequired"
    ELSE IF IsFirstRequest(emergency_request) THEN "Requested"
    ELSE IF ~EmergencyDelayMet(now, emergency_request.requested_at)
         THEN "EmergencyDelayNotMet"
    ELSE IF emergency_request.executed THEN "EmergencyRequestAlreadyExecuted"
    ELSE IF ~TransferSucceeds(staking_position.nft_mint, ProgramPda, transfer_ok)
         THEN "TransferFailed"
    ELSE IF Sub1Traps(staking_program.total_staked) THEN "Panic"
    ELSE IF Sub1Traps(collection_accounts[collection].total_staked) THEN "Panic"
    ELSE "Ok"

\* "Requested" is the Ok(()) of the first request (line 238), "Ok" the Ok(())
\* of the executed unlock (line 286).
admin_unlock_result(position, collection, reason, transfer_ok) ==
    LET staking_position == staking_positions[position]
        emergency_request == EmergencyRequestOf(position)
    IN
    IF reason = "" THEN "ReasonRequired"
    ELSE IF ~staking_position.is_active THEN "PositionNotActive"
    ELSE IF IsFirstRequest(emergency_request) THEN "Requested"
    ELSE IF ~EmergencyDelayMet(now, emergency_request.requested_at)
         THEN "EmergencyDelayNotMet"
    ELSE IF emergency_request.executed THEN "EmergencyRequestAlreadyExecuted"
    ELSE IF ~TransferSucceeds(staking_position.nft_mint, ProgramPda, transfer_ok)
         THEN "TransferFailed"
    ELSE IF Sub1Traps(staking_program.total_staked) THEN "Panic"
    ELSE IF Sub1Traps(collection_accounts[collection].total_staked) THEN "Panic"
    ELSE "Ok"

\* `to` is the owner of the owner_token_account the caller passes.
admin_unlock(admin, admin_account, position, collection, to, reason, transfer_ok) ==
    LET result == admin_unlock_result(position, collection, reason, transfer_ok) IN
    /\ admin_account \in DOMAIN admin_accounts
    /\ position \in DOMAIN staking_positions
    /\ collection \in DOMAIN collection_accounts
    /\ last' = Call("admin_unlock", result, admin)
    /\ CASE result = "Requested" ->
              /\ emergency_requests' =
                   [p \in DOMAIN emergency_requests \cup {position} |->
                      IF p = position THEN RequestedEmergency(admin, now, reason)
                      ELSE emergency_requests[p]]
              /\ UNCHANGED <<staking_positions, token_holder, staking_program,
                             collection_accounts>>
         [] result = "Ok" ->
              /\ emergency_requests' =
                   [emergency_requests EXCEPT ![position].executed = TRUE]
              /\ staking_positions' =
                   [staking_positions EXCEPT ![position].is_active = FALSE]
              /\ token_holder' =
                   [token_holder EXCEPT ![staking_positions[position].nft_mint] = to]
              /\ staking_program' =
                   [staking_program EXCEPT
                      !.total_staked = WrappingSub1(staking_program.total_staked)]
              /\ collection_accounts' =
                   [collection_accounts EXCEPT
                      ![collection].total_staked =
                          WrappingSub1(collection_accounts[collection].total_staked)]
         [] OTHER ->
              UNCHANGED <<emergency_requests, staking_positions, token_holder,
                          staking_program, collection_accounts>>
    /\ UNCHANGED <<admin_accounts, now, overflow_checks>>

\* ------------------------------------------------------------ specification

NextOver(instants, durations, recipients, updates) ==
    \/ Tick(instants)
    \/ \E authority \in Pubkeys, admin_key \in AdminKeys :
         add_admin(authority, admin_key, admin_key)
    \/ \E authority \in Pubkeys, mint_key \in CollectionMints, tickets \in TicketArgs :
         add_collection(authority, mint_key, mint_key, tickets)
    \/ \E user \in Pubkeys, nft_mint \in NftMints, collection \in CollectionMints,
          duration \in durations, transfer_ok \in BOOLEAN :
         stake_nft(user, nft_mint, collection, duration, transfer_ok)
    \/ \E user \in Pubkeys, position \in NftMints \X Pubkeys,
          collection \in CollectionMints, transfer_ok \in BOOLEAN :
         claim_nft(user, position, collection, user, transfer_ok)
    \/ \E admin \in Pubkeys, admin_account \in Pubkeys,
          position \in NftMints \X Pubkeys, collection \in CollectionMints,
          to \in recipients, reason \in ReasonArgs, transfer_ok \in BOOLEAN :
         admin_unlock(admin, admin_account, position, collection, to, reason,
                      transfer_ok)
    \/ \E admin \in Pubkeys, admin_account \in Pubkeys :
         pause_contract(admin, admin_account)
    \/ \E admin \in Pubkeys, admin_account \in Pubkeys :
         unpause_contract(admin, admin_account)
    \/ \E authority \in Pubkeys, admin_account \in Pubkeys,
          collection \in CollectionMints, tickets \in updates :
         update_collection_rewards(authority, admin_account, collection, tickets)
    \/ \E authority \in Pubkeys, admin_account \in Pubkeys,
          collection \in CollectionMints, validated \in ValidatedArgs :
         validate_collection(authority, admin_account, collection, validated)

\* Runs around the emergency delay.
Next == NextOver(DelayInstants, DurationArgs, Pubkeys, TicketArgs)
Spec == Init /\ [][Next]_vars

\* Runs around the six-month unlock time; an emergency unlock returns the NFT
\* to its first holder.
NextUnlock == NextOver(UnlockInstants, DurationArgs, {"alice"}, TicketArgs)
SpecUnlock == Init /\ [][NextUnlock]_vars

\* Runs over every duration tier.
NextTiers == NextOver(TierInstants, AllDurationArgs, {"alice"}, TicketArgs)
SpecTiers == Init /\ [][NextTiers]_vars

\* Runs in which the ticket counts of a collection are rewritten.
NextRewards == NextOver(TierInstants, DurationArgs, {"alice"}, UpdateTicketArgs)
SpecRewards == Init /\ [][NextRewards]_vars

\* =============================================================== properties

ActivePositions ==
    {p \in DOMAIN staking_positions : staking_positions[p].is_active}

\* The active positions whose collection reference is collection account c's mint.
ActiveReferencing(c) ==
    {p \in ActivePositions :
        staking_positions[p].collection_mint = collection_accounts[c].collection_mint}

\* The collection accounts a position's collection reference names.
CollectionsOf(position) ==
    {c \in DOMAIN collection_accounts :
        collection_accounts[c].collection_mint =
            staking_positions[position].collection_mint}

\* x = y - 1 as mathematical integers, for u64 values x and y.
IsOneLess(x, y) == y # U64Zero /\ x = WrappingSub1(y)

\* ---------------------------------------------------------------------- C1
\* C1: after every operation, each collection's total_staked is the number of
\* active positions whose collection reference is that collection, and the
\* global total_staked is the number of active positions.
C1_CounterConsistency ==
    /\ staking_program.total_staked = U64(Cardinality(ActivePositions))
    /\ \A c \in DOMAIN collection_accounts :
         collection_accounts[c].total_staked = U64(Cardinality(ActiveReferencing(c)))

\* ---------------------------------------------------------------------- C2
\* Limb i of every collection's total_staked, added up.
RECURSIVE LimbTotal(_, _)
LimbTotal(S, i) ==
    IF S = {} THEN 0
    ELSE LET c == CHOOSE x \in S : TRUE
         IN collection_accounts[c].total_staked[i] + LimbTotal(S \ {c}, i)

\* The u64 sum (modulo 2^64) of the collections' total_staked, limb by limb
\* with carry.
RECURSIVE CarrySum(_, _)
CarrySum(i, carry) ==
    IF i > 4 THEN << >>
    ELSE LET t == LimbTotal(DOMAIN collection_accounts, i) + carry
         IN <<t % LimbBase>> \o CarrySum(i + 1, t \div LimbBase)

SumOfCollectionCounters == CarrySum(1, 0)

GuardedOps ==
    {"add_admin", "add_collection", "stake_nft", "claim_nft", "admin_unlock",
     "update_collection_rewards", "validate_collection"}

\* C3: while the system is paused, every state-mutating operation other than
\* pause_contract and unpause_contract fails with ContractPaused (or, for a
\* record that already exists, is rejected as a duplicate before the handler
\* runs) and changes no record.
C3_PausedBlocksMutations ==
    [][(staking_program.is_paused /\ last'.op \in GuardedOps)
         => (/\ last'.result \in {"ContractPaused", "AlreadyInUse"}
             /\ UNCHANGED accounts)]_vars

\* ---------------------------------------------------------------------- C4
\* What a claim_nft by the owner answers in the current state, whichever
\* collection account is passed, when the token transfer itself goes through.
ClaimAnswers(position, answer) ==
    \A c \in DOMAIN collection_accounts :
        claim_nft_result(staking_positions[position].owner, position, c, TRUE) = answer

C4_ClaimAnswer ==
    \A p \in DOMAIN staking_positions :
        ~staking_program.is_paused =>
            IF ~staking_positions[p].is_active
            THEN ClaimAnswers(p, "PositionNotActive")
            ELSE IF now < staking_positions[p].unlock_at
            THEN ClaimAnswers(p, "StakingPeriodNotCompleted")
            ELSE ClaimAnswers(p, "Ok")

C4_ClaimEffect ==
    (last'.op = "claim_nft" /\ last'.result = "Ok") =>
        \E p \in ActivePositions :
            /\ staking_positions' = [staking_positions EXCEPT ![p].is_active = FALSE]
            /\ staking_positions[p].owner = last'.signer
            /\ now >= staking_positions[p].unlock_at
            /\ IsOneLess(staking_program'.total_staked, staking_program.total_staked)
            /\ \A c \in CollectionsOf(p) :
                 IsOneLess(collection_accounts'[c].total_staked,
                           collection_accounts[c].total_staked)

\* C4: while the system is unpaused, claim_nft by the owner fails with
\* StakingPeriodNotCompleted strictly before unlock_at, succeeds at or after
\* unlock_at, and fails with PositionNotActive once the position has been
\* released; a successful claim deactivates the position and takes one off the
\* global counter and one off the counter of the position's collection.
C4_ClaimTimeLock ==
    [][C4_ClaimAnswer' /\ C4_ClaimEffect]_vars

\* ---------------------------------------------------------------------- C5
RecordedRequests ==
    {p \in DOMAIN emergency_requests : emergency_requests[p].requested_at # 0}

C5_DelayAnswer ==
    \A p \in RecordedRequests :
        staking_positions[p].is_active =>
            \A c \in DOMAIN collection_accounts, transfer_ok \in BOOLEAN :
                IF now < emergency_requests[p].requested_at + 86400
                THEN admin_unlock_result(p, c, "incident", transfer_ok)
                        = "EmergencyDelayNotMet"
                ELSE admin_unlock_result(p, c, "incident", transfer_ok)
                        \in {"Ok", "Panic", "TransferFailed"}

C5_DelayEffect ==
    /\ (last'.op = "admin_unlock" /\ last'.result = "EmergencyDelayNotMet") =>
          UNCHANGED accounts
    /\ \A p \in RecordedRequests :
          (~emergency_requests[p].executed /\ emergency_requests'[p].executed) =>
              now >= emergency_requests[p].requested_at + 86400

\* C5: an emergency unlock is never executed before requested_at + 86400 s:
\* for an active position with a recorded request, admin_unlock below that time
\* fails with EmergencyDelayNotMet and changes nothing, and from exactly
\* requested_at + 86400 on the delay no longer refuses it.
C5_EmergencyDelay ==
    [][C5_DelayAnswer' /\ C5_DelayEffect]_vars

C5_Witness ==
    /\ last.op = "admin_unlock" /\ last.result = "Ok"
    /\ \E p \in RecordedRequests :
         /\ emergency_requests[p].executed
         /\ ~staking_positions[p].is_active
         /\ now = emergency_requests[p].requested_at + 86400

\* ---------------------------------------------------------------------- C6
NoRequestYet ==
    {p \in ActivePositions : p \notin RecordedRequests}

C6_FirstAnswer ==
    \A p \in NoRequestYet :
        \A c \in DOMAIN collection_accounts, transfer_ok \in BOOLEAN :
            admin_unlock_result(p, c, "incident", transfer_ok) = "Requested"

C6_FirstEffect ==
    (last'.op = "admin_unlock" /\ last'.result = "Requested") =>
        /\ UNCHANGED <<staking_program, admin_accounts, collection_accounts,
                       staking_positions, token_holder>>
        /\ \E p \in NoRequestYet :
             /\ DOMAIN emergency_requests' = DOMAIN emergency_requests \cup {p}
             /\ \A q \in DOMAIN emergency_requests \ {p} :
                  emergency_requests'[q] = emergency_requests[q]
             /\ emergency_requests'[p].requester = last'.signer
             /\ emergency_requests'[p].requested_at = now
             /\ emergency_requests'[p].reason # ""
             /\ emergency_requests'[p].executed = FALSE
             /\ staking_positions'[p].is_active
             /\ token_holder'[staking_positions[p].nft_mint] = ProgramPda

\* C6: the first admin_unlock on an active position with no prior request and
\* a non-empty reason returns success and only records the request (requester =
\* caller, requested_at = now, executed = false): the position stays active, the
\* asset stays in custody, and no counter changes.
C6_FirstCallOnlyRecords ==
    [][C6_FirstAnswer' /\ C6_FirstEffect]_vars

C6_Witness ==
    /\ last.op = "admin_unlock" /\ last.result = "Requested"
    /\ \E p \in RecordedRequests :
         /\ emergency_requests[p].requested_at = now
         /\ emergency_requests[p].requester = last.signer
         /\ ~emergency_requests[p].executed
         /\ staking_positions[p].is_active
         /\ token_holder[staking_positions[p].nft_mint] = ProgramPda
         /\ staking_program.total_staked = U64(1)

\* ---------------------------------------------------------------------- C7
C7_ExecuteAnswer ==
    \A p \in RecordedRequests :
        \A c \in DOMAIN collection_accounts :
            IF emergency_requests[p].executed
            THEN admin_unlock_result(p, c, "incident", TRUE)
                    = "EmergencyRequestAlreadyExecuted"
            ELSE (staking_positions[p].is_active
                  /\ now >= emergency_requests[p].requested_at + 86400)
                    => admin_unlock_result(p, c, "incident", TRUE) = "Ok"

C7_ExecuteEffect ==
    (last'.op = "admin_unlock" /\ last'.result = "Ok") =>
        \E p \in ActivePositions \cap RecordedRequests :
            /\ ~emergency_requests[p].executed
            /\ emergency_requests' = [emergency_requests EXCEPT ![p].executed = TRUE]
            /\ staking_positions' = [staking_positions EXCEPT ![p].is_active = FALSE]
            /\ IsOneLess(staking_program'.total_staked, staking_program.total_staked)
            /\ \A c \in CollectionsOf(p) :
                 IsOneLess(collection_accounts'[c].total_staked,
                           collection_accounts[c].total_staked)

\* C7: for a position with a recorded request, admin_unlock after the delay
\* succeeds (executed becomes true, the position is deactivated, the global
\* counter and the counter of the position's collection each go down by one),
\* and once the request is executed every further admin_unlock on the position
\* fails with EmergencyRequestAlreadyExecuted.
C7_ExecutesExactlyOnce ==
    [][C7_ExecuteAnswer' /\ C7_ExecuteEffect]_vars

\* ---------------------------------------------------------------------- C8
\* C8: when admin_unlock executes an emergency unlock, the asset goes to the
\* position's recorded owner, whoever calls and whichever destination token
\* account is supplied.
C8_UnlockDeliversToOwner ==
    [][(last'.op = "admin_unlock" /\ last'.result = "Ok") =>
         \A p \in ActivePositions :
             ~staking_positions'[p].is_active =>
                 token_holder'[staking_positions[p].nft_mint]
                     = staking_positions[p].owner]_vars

\* ---------------------------------------------------------------------- C9
\* C9: admin_unlock succeeds, in its request phase and in its execute phase,
\* only when the signer itself has an Admin Record.
C9_UnlockOnlyByAdmin ==
    (last.op = "admin_unlock" /\ last.result \in {"Requested", "Ok"}) =>
        \E a \in DOMAIN admin_accounts : admin_accounts[a].admin = last.signer

\* --------------------------------------------------------------------- C10
TierSeconds(t) ==
    CASE t = 0 -> 15552000
      [] t = 1 -> 31536000
      [] t = 2 -> 94608000

C10_StakeEffect ==
    /\ (last'.op = "stake_nft" /\ last'.result = "Ok") =>
          \E p \in DOMAIN staking_positions' \ DOMAIN staking_positions :
              /\ DOMAIN staking_positions' = DOMAIN staking_positions \cup {p}
              /\ staking_positions'[p].duration \in {0, 1, 2}
              /\ staking_positions'[p].staked_at = now
              /\ staking_positions'[p].unlock_at - staking_positions'[p].staked_at
                   = TierSeconds(staking_positions'[p].duration)
    /\ (last'.op = "stake_nft" /\ last'.result = "InvalidDuration") =>
          UNCHANGED accounts

C10_TierAnswer ==
    \A user \in Pubkeys, nft_mint \in NftMints :
        (~staking_program.is_paused /\ <<nft_mint, user>> \notin DOMAIN staking_positions) =>
            \A c \in DOMAIN collection_accounts, transfer_ok \in BOOLEAN :
                /\ \A t \in AllDurationArgs \ {0, 1, 2} :
                     stake_nft_result(user, nft_mint, c, t, transfer_ok)
                        = "InvalidDuration"
                /\ \A t \in {0, 1, 2} :
                     stake_nft_result(user, nft_mint, c, t, transfer_ok)
                        # "InvalidDuration"

\* C10: a successful stake_nft with tier 0, 1 or 2 creates a position with
\* staked_at = now and unlock_at - staked_at = 15552000, 31536000 or 94608000
\* seconds; stake_nft with a tier outside {0, 1, 2} fails with InvalidDuration
\* and creates no position.
C10_TierDurations ==
    [][C10_TierAnswer' /\ C10_StakeEffect]_vars

C10_Witness ==
    /\ last.op = "stake_nft" /\ last.result = "Ok"
    /\ \E p \in ActivePositions :
         /\ staking_positions[p].duration = 2
         /\ staking_positions[p].staked_at = now
         /\ staking_positions[p].unlock_at = now + 94608000

C12_AddAdminAuthorityOnly ==
    [][last'.op = "add_admin" =>
         IF last'.result = "Ok"
         THEN /\ last'.signer = staking_program.authority
              /\ ~staking_program.is_paused
              /\ \E k \in AdminKeys \ DOMAIN admin_accounts :
                   DOMAIN admin_accounts' = DOMAIN admin_accounts \cup {k}
         ELSE UNCHANGED accounts]_vars

\* --------------------------------------------------------------------- C13
C13_AddCollectionEffect ==
    (last'.op = "add_collection" /\ last'.result = "Ok") =>
        /\ last'.signer = staking_program.authority
        /\ ~staking_program.is_paused
        /\ \E k \in CollectionMints \ DOMAIN collection_accounts :
             /\ DOMAIN collection_accounts' = DOMAIN collection_accounts \cup {k}
             /\ collection_accounts'[k].is_active
             /\ ~collection_accounts'[k].is_validated
             /\ collection_accounts'[k].total_staked = U64Zero
             /\ collection_accounts'[k].six_month_multiplier = 11000
             /\ collection_accounts'[k].twelve_month_multiplier = 12500
             /\ collection_accounts'[k].three_year_multiplier = 15000

C13_CollectionsCounted ==
    staking_program.total_collections = U64(Cardinality(DOMAIN collection_accounts))

\* C13: add_collection succeeds only for the authority while unpaused and for
\* a collection identity that has no record; each success creates one record
\* (active, not validated, total_staked 0, multipliers 11000/12500/15000), and
\* total_collections always equals the number of collection records.
C13_AddCollectionAuthorityOnly ==
    [][C13_AddCollectionEffect /\ C13_CollectionsCounted']_vars

\* --------------------------------------------------------------------- C14
\* C14: pause_contract and unpause_contract succeed only when the signer has
\* an Admin Record of its own; they then set is_paused = true, paused_at = now
\* and is_paused = false, paused_at = 0, whatever the flag was.
C14_PauseOnlyByAdmin ==
    [][last'.op \in {"pause_contract", "unpause_contract"} =>
         /\ \E a \in DOMAIN admin_accounts : admin_accounts[a].admin = last'.signer
         /\ last'.op = "pause_contract" =>
              (staking_program'.is_paused /\ staking_program'.paused_at = now)
         /\ last'.op = "unpause_contract" =>
              (~staking_program'.is_paused /\ staking_program'.paused_at = 0)]_vars

\* --------------------------------------------------------------------- C15
SuccessResults == {"Ok", "Requested"}

TransferringOps == {"stake_nft", "claim_nft", "admin_unlock"}

\* A call whose token transfer fails is a failing call.
C15_FailedTransferFails ==
    /\ \A user \in Pubkeys, nft_mint \in NftMints, c \in DOMAIN collection_accounts :
         /\ stake_nft_result(user, nft_mint, c, 0, FALSE) \notin SuccessResults
         /\ token_holder[nft_mint] # user =>
              stake_nft_result(user, nft_mint, c, 0, TRUE) \notin SuccessResults
    /\ \A p \in DOMAIN staking_positions, c \in DOMAIN collection_accounts :
         /\ claim_nft_result(staking_positions[p].owner, p, c, FALSE) # "Ok"
         /\ admin_unlock_result(p, c, "incident", FALSE) # "Ok"

\* C15: every failing call leaves every record unchanged (no position or
\* request is created, no active flag flips, no counter changes, no asset
\* moves), and in every state in which stake_nft, claim_nft or admin_unlock is
\* called, the call whose transfer fails is such a failing call.
C15_FailureChangesNothing ==
    [][/\ last'.op \in TransferringOps => C15_FailedTransferFails
       /\ (last'.op # "clock" /\ last'.result \notin SuccessResults) =>
             UNCHANGED accounts]_vars

\* A claim_nft past unlock_at has just failed in its transfer.
C15_Witness ==
    /\ last.op = "claim_nft" /\ last.result = "TransferFailed"
    /\ \E p \in ActivePositions :
         /\ now >= staking_positions[p].unlock_at
         /\ staking_positions[p].owner = last.signer
         /\ token_holder[staking_positions[p].nft_mint] = ProgramPda
         /\ staking_program.total_staked = U64(1)

\* --------------------------------------------------------------------- C16
C16_StrangerRefused ==
    ~staking_program.is_paused =>
        \A p \in ActivePositions :
            \A user \in Pubkeys \ {staking_positions[p].owner},
               c \in DOMAIN collection_accounts, transfer_ok \in BOOLEAN :
                claim_nft_result(user, p, c, transfer_ok) = "NotPositionOwner"

C16_ClaimEffect ==
    /\ last'.result = "Ok" =>
         \E p \in ActivePositions :
             /\ staking_positions[p].owner = last'.signer
             /\ ~staking_positions'[p].is_active
    /\ last'.result = "NotPositionOwner" => UNCHANGED accounts

\* C16: claim_nft succeeds only for the position's recorded owner; while the
\* system is unpaused, a claim_nft by any other signer on an active position
\* fails with NotPositionOwner at any clock time and changes no record.
C16_ClaimOwnerOnly ==
    [][last'.op = "claim_nft" => (C16_StrangerRefused /\ C16_ClaimEffect)]_vars

\* A stranger's claim_nft past unlock_at has just been refused.
C16_Witness ==
    /\ last.op = "claim_nft" /\ last.result = "NotPositionOwner"
    /\ \E p \in ActivePositions :
         /\ staking_positions[p].owner # last.signer
         /\ now >= staking_positions[p].unlock_at
         /\ token_holder[staking_positions[p].nft_mint] = ProgramPda

\* --------------------------------------------------------------------- C17
C17_EmptyReasonAnswer ==
    \A p \in DOMAIN staking_positions, c \in DOMAIN collection_accounts,
       transfer_ok \in BOOLEAN :
        admin_unlock_result(p, c, "", transfer_ok) = "ReasonRequired"

\* C17: admin_unlock with an empty reason fails with ReasonRequired whatever
\* the state of the position's emergency request and whether the position is
\* active or not, and changes no record.
C17_EmptyReasonRefused ==
    [][last'.op = "admin_unlock" =>
         /\ C17_EmptyReasonAnswer
         /\ last'.result = "ReasonRequired" => UNCHANGED accounts]_vars

\* An admin_unlock with an empty reason has just been refused on a position
\* whose emergency unlock is executed.
C17_Witness ==
    /\ last.op = "admin_unlock" /\ last.result = "ReasonRequired"
    /\ \E p \in RecordedRequests :
         /\ emergency_requests[p].executed
         /\ ~staking_positions[p].is_active

\* --------------------------------------------------------------------- C18
\* The active positions recorded for the pair (nft_mint, user).
ActiveOfPair(nft_mint, user) ==
    {p \in ActivePositions :
        /\ staking_positions[p].nft_mint = nft_mint
        /\ staking_positions[p].owner = user}

C18_OnePerPair ==
    \A nft_mint \in NftMints, user \in Pubkeys :
        /\ Cardinality(ActiveOfPair(nft_mint, user)) <= 1
        /\ ActiveOfPair(nft_mint, user) # {} =>
             \A c \in DOMAIN collection_accounts, duration \in {0, 1, 2},
                transfer_ok \in BOOLEAN :
                 stake_nft_result(user, nft_mint, c, duration, transfer_ok)
                    \notin SuccessResults

\* C18: every (asset, owner) pair has at most one active position, and
\* stake_nft for a pair that has an active position fails: a successful
\* stake_nft always creates the position of a pair that had none, recorded
\* under that pair.
C18_OneActivePerPair ==
    [][/\ last'.op = "stake_nft" => (C18_OnePerPair /\ C18_OnePerPair')
       /\ (last'.op = "stake_nft" /\ last'.result = "Ok") =>
            \E p \in (NftMints \X Pubkeys) \ DOMAIN staking_positions :
                /\ DOMAIN staking_positions' = DOMAIN staking_positions \cup {p}
                /\ staking_positions'[p].nft_mint = p[1]
                /\ staking_positions'[p].owner = p[2]
                /\ p[2] = last'.signer]_vars

\* A stake_nft for a pair whose position is active has just been refused.
C18_Witness ==
    /\ last.op = "stake_nft" /\ last.result = "AlreadyInUse"
    /\ \E nft_mint \in NftMints : ActiveOfPair(nft_mint, last.signer) # {}

\* --------------------------------------------------------------------- C19
\* Everything of a collection record but its three ticket counts.
BesidesTickets(collection_account) ==
    <<collection_account.collection_mint,
      collection_account.six_month_multiplier,
      collection_account.twelve_month_multiplier,
      collection_account.three_year_multiplier,
      collection_account.is_active,
      collection_account.is_validated,
      collection_account.total_staked>>

C19_CreationMultipliers ==
    \A c \in DOMAIN collection_accounts :
        /\ collection_accounts[c].six_month_multiplier = 11000
        /\ collection_accounts[c].twelve_month_multiplier = 12500
        /\ collection_accounts[c].three_year_multiplier = 15000

\* C19: update_collection_rewards changes nothing but the three ticket
\* counts of one collection (its multipliers, active flag, validated flag and
\* total_staked stay), and every collection's multipliers are 11000, 12500 and
\* 15000 in every state.
C19_UpdateRewardsFrame ==
    [][/\ C19_CreationMultipliers'
       /\ last'.op = "update_collection_rewards" =>
            /\ UNCHANGED <<staking_program, admin_accounts, staking_positions,
                           emergency_requests, token_holder>>
            /\ DOMAIN collection_accounts' = DOMAIN collection_accounts
            /\ \A c \in DOMAIN collection_accounts :
                 BesidesTickets(collection_accounts'[c])
                    = BesidesTickets(collection_accounts[c])]_vars

\* The ticket counts of a validated collection with a staked asset have just
\* been rewritten.
C19_Witness ==
    /\ last.op = "update_collection_rewards" /\ last.result = "Ok"
    /\ \E c \in DOMAIN collection_accounts :
         /\ collection_accounts[c].six_month_tickets = 4
         /\ collection_accounts[c].twelve_month_tickets = 5
         /\ collection_accounts[c].three_year_tickets = 6
         /\ collection_accounts[c].is_validated
         /\ collection_accounts[c].total_staked = U64(1)
         /\ collection_accounts[c].six_month_multiplier = 11000

\* --------------------------------------------------------------------- C20
ReleasingOps == {"claim_nft", "admin_unlock"}

\* Every releasing call on a released position gets a definitive refusal.
C20_ReleasedRefuses ==
    \A p \in DOMAIN staking_positions \ ActivePositions :
        \A user \in Pubkeys, c \in DOMAIN collection_accounts, transfer_ok \in BOOLEAN :
            /\ claim_nft_result(user, p, c, transfer_ok)
                 \in {"PositionNotActive", "ContractPaused"}
            /\ admin_unlock_result(p, c, "incident", transfer_ok) = "PositionNotActive"

\* A successful release takes one active position out of custody and takes one
\* off the global counter and off one collection counter.
C20_ReleaseOnce ==
    \E p \in ActivePositions :
        /\ staking_positions' = [staking_positions EXCEPT ![p].is_active = FALSE]
        /\ token_holder[staking_positions[p].nft_mint] = ProgramPda
        /\ token_holder'[staking_positions[p].nft_mint] # ProgramPda
        /\ IsOneLess(staking_program'.total_staked, staking_program.total_staked)
        /\ \E c \in DOMAIN collection_accounts :
             /\ collection_accounts'[c].total_staked
                  = U64DecFrom(collection_accounts[c].total_staked, 1)
             /\ \A d \in DOMAIN collection_accounts \ {c} :
                  collection_accounts'[d] = collection_accounts[d]

\* C20: a position's asset leaves custody at most once: each successful
\* claim_nft or executing admin_unlock releases one position that was active
\* and decrements the counters once, a released position is never active again,
\* and every claim_nft or admin_unlock on a released position fails with
\* PositionNotActive (ContractPaused for a claim while paused) and changes
\* nothing.
C20_ReleasedAtMostOnce ==
    [][/\ \A p \in DOMAIN staking_positions \ ActivePositions :
            p \in DOMAIN staking_positions' /\ ~staking_positions'[p].is_active
       /\ last'.op \in ReleasingOps =>
            /\ C20_ReleasedRefuses
            /\ IF last'.result = "Ok"
               THEN C20_ReleaseOnce
               ELSE UNCHANGED <<staking_positions, token_holder, staking_program,
                                collection_accounts>>]_vars

\* The owner's claim_nft past unlock_at has just been refused on a position
\* that an emergency unlock had released.
C20_Witness ==
    /\ last.op = "claim_nft" /\ last.result = "PositionNotActive"
    /\ \E p \in RecordedRequests :
         /\ emergency_requests[p].executed
         /\ ~staking_positions[p].is_active
         /\ staking_positions[p].owner = last.signer
         /\ now >= staking_positions[p].unlock_at
         /\ staking_program.total_staked = U64Zero

\* --------------------------------------------------------------------- C21
\* The collection accounts whose total_staked a step has changed.
ChargedCollections ==
    {c \in DOMAIN collection_accounts :
        collection_accounts'[c].total_staked # collection_accounts[c].total_staked}

\* C21: a successful claim_nft or admin_unlock never decrements a counter
\* that is 0: the global total_staked and the total_staked of the collection
\* it charges are at least 1 before the step, whichever collection account
\* was passed, so no counter wraps around.
C21_NoUnderflow ==
    [][(last'.op \in ReleasingOps /\ last'.result = "Ok") =>
         /\ staking_program.total_staked # U64Zero
         /\ \A c \in ChargedCollections :
              /\ collection_accounts[c].total_staked # U64Zero
              /\ collection_accounts'[c].total_staked # U64Max]_vars

\* --------------------------------------------------------------------- C22
\* The positions with a request that is recorded and not executed.
PendingRequests ==
    {p \in RecordedRequests : ~emergency_requests[p].executed}

\* With a request pending, the owner's claim_nft past unlock_at succeeds when
\* the transfer goes through, whichever collection account it passes.
C22_ClaimNotBlocked ==
    ~staking_program.is_paused =>
        \A p \in PendingRequests \cap ActivePositions :
            now >= staking_positions[p].unlock_at =>
                \A c \in DOMAIN collection_accounts :
                    claim_nft_result(staking_positions[p].owner, p, c, TRUE) = "Ok"

\* Once the position is claimed, every admin_unlock on it is refused.
C22_UnlockRefused ==
    \A p \in PendingRequests \ ActivePositions :
        \A c \in DOMAIN collection_accounts, transfer_ok \in BOOLEAN :
            admin_unlock_result(p, c, "incident", transfer_ok) = "PositionNotActive"

\* A claimed position with a pending request stays so, and a step that
\* releases no position changes no counter.
C22_RequestStaysPending ==
    /\ \A p \in PendingRequests \ ActivePositions :
         /\ p \in DOMAIN emergency_requests'
         /\ ~emergency_requests'[p].executed
         /\ ~staking_positions'[p].is_active
    /\ (\A p \in ActivePositions : staking_positions'[p].is_active) =>
         /\ staking_program'.total_staked = staking_program.total_staked
         /\ ChargedCollections = {}

\* C22: a pending emergency request does not block the normal path: the
\* owner's claim_nft at or after unlock_at still succeeds; after that claim
\* every admin_unlock on the position fails with PositionNotActive, the
\* request's executed flag stays false, and no counter is decremented again.
C22_PendingRequestNoBlock ==
    [][last'.op \in ReleasingOps =>
         (C22_ClaimNotBlocked /\ C22_UnlockRefused /\ C22_RequestStaysPending)]_vars

\* --------------------------------------------------------------------- C23
\* Every position record sits under the pair (asset, owner) of its fields, and
\* no stake_nft of that owner for that asset gets past the creation of the
\* record, active or not.
C23_RecordBlocksStake ==
    \A p \in DOMAIN staking_positions :
        /\ staking_positions[p].nft_mint = p[1]
        /\ staking_positions[p].owner = p[2]
        /\ \A c \in DOMAIN collection_accounts, duration \in AllDurationArgs,
              transfer_ok \in BOOLEAN :
               stake_nft_result(p[2], p[1], c, duration, transfer_ok) = "AlreadyInUse"

\* No step removes a position record or moves it to another pair.
C23_RecordPersists ==
    \A p \in DOMAIN staking_positions :
        /\ p \in DOMAIN staking_positions'
        /\ staking_positions'[p].nft_mint = staking_positions[p].nft_mint
        /\ staking_positions'[p].owner = staking_positions[p].owner

\* C23: position records are keyed by (asset, owner) and persist after
\* deactivation; once a record exists for a pair, active or inactive, every
\* later stake_nft by that owner for that asset fails, so an owner never
\* re-stakes an asset that was claimed or emergency-unlocked.
C23_NoRestake ==
    [][/\ C23_RecordPersists
       /\ last'.op = "stake_nft" =>
            /\ C23_RecordBlocksStake
            /\ \A p \in DOMAIN staking_positions :
                 staking_positions'[p] = staking_positions[p]]_vars

\* The owner holds the asset again after a claim_nft, the system is not paused,
\* and the owner's stake_nft for it has just been refused.
C23_Witness ==
    /\ last.op = "stake_nft" /\ last.result = "AlreadyInUse"
    /\ ~staking_program.is_paused
    /\ \E p \in DOMAIN staking_positions :
         /\ ~staking_positions[p].is_active
         /\ p \notin RecordedRequests
         /\ p[2] = last.signer
         /\ token_holder[p[1]] = p[2]
         /\ now >= staking_positions[p].unlock_at
         /\ \E c \in DOMAIN collection_accounts : collection_accounts[c].is_active

====
